---- MODULE Spec2Model ----
(***************************************************************************)
(* Credential and session lifecycle of the user authentication service:    *)
(* the DB store (db.py), the Auth manager (auth.py) and the Flask handlers *)
(* (app.py) that call it.  The later sections model the SessionAuth        *)
(* dictionary and Auth.require_auth of the session authentication API,     *)
(* filter_datum and main of the log redaction module, and register_user    *)
(* calls whose steps interleave.                                           *)
(*                                                                         *)
(* Python values are modelled as strings; the None object is the string    *)
(* None below, which is different from every str value the model uses.     *)
(* uuid4 is modelled as a source of fresh values (a counter).  bcrypt is   *)
(* modelled as a salted digest that checkpw recomputes from the salt kept  *)
(* in the stored hash; the digest is collision free on the model's         *)
(* passwords.                                                              *)
(***************************************************************************)
EXTENDS Integers, Sequences, FiniteSets, TLC

VARIABLES users, db, nextUuid, last, user_id_by_session_id, calls

vars == <<users, db, nextUuid, last, user_id_by_session_id, calls>>

\* ---------------------------------------------------------------- bounds
MaxUsers == 2
MaxUuid == 2

\* ---------------------------------------------------------------- values
None == "None"

Emails == {"a@x.com", "b@x.com"}
EmailArgs == Emails \cup {"", None}

PasswordSeq == <<"pw1", "pw2">>
PasswordArgs == {PasswordSeq[i] : i \in 1..Len(PasswordSeq)} \cup {None}

\* the values bcrypt.gensalt() is drawn from
SaltSeq == <<"s1">>
Salts == {SaltSeq[i] : i \in 1..Len(SaltSeq)}

UuidSeq == <<"uuid1", "uuid2", "uuid3", "uuid4", "uuid5", "uuid6">>
Uuids == {UuidSeq[i] : i \in 1..Len(UuidSeq)}
\* a well-formed token that was never issued
StrangerToken == "uuid0"
TokenArgs == {UuidSeq[i] : i \in 1..MaxUuid} \cup {StrangerToken, "", None}

UserIdArgs == 0..(MaxUsers + 1)

\* Python truthiness of a str-or-None value
Falsy(v) == v = None \/ v = ""

\* ---------------------------------------------------------------- bcrypt
IndexOf(seq, v) == CHOOSE i \in 1..Len(seq) : seq[i] = v

Digest(salt, password) ==
    (IndexOf(PasswordSeq, password) * 7 + IndexOf(SaltSeq, salt) * 3) % 31

\* bcrypt.hashpw(password, salt): the salt is kept in the result
hashpw(password, salt) == [salt |-> salt, digest |-> Digest(salt, password)]

\* bcrypt.checkpw(password, hashed): rehash with the stored salt and compare
checkpw(password, hashed) == hashpw(password, hashed.salt) = hashed

\* an empty or missing hashed_password, as DB.add_user tests it
NoHash == [salt |-> "", digest |-> 0]

\* _hash_password(password) raises AttributeError: None has no encode()
HashRaises(password) == password = None

\* _hash_password(password) when it returns
_hash_password(password, salt) == hashpw(password, salt)

\* mutant: a generator that repeats its first value
_generate_uuid_repeat(n) == UuidSeq[1]

\* _generate_uuid(): the n-th value drawn from uuid4
_generate_uuid(n) == UuidSeq[n]

\* ---------------------------------------------------------------- DB
VALID_FIELDS == {"id", "email", "hashed_password", "session_id", "reset_token"}

User(id, email, hashed_password) ==
    [id |-> id, email |-> email, hashed_password |-> hashed_password,
     session_id |-> None, reset_token |-> None]

Max(S) == IF S = {} THEN 0 ELSE CHOOSE m \in S : \A x \in S : x <= m

\* primary key given by SQLite to a new row
NewId(us) == Max({us[i].id : i \in 1..Len(us)}) + 1

\* mutant: query.first() in place of query.one()
find_user_by_first(us, key, val) ==
    LET matches == {i \in 1..Len(us) : us[i][key] = val}
    IN IF matches = {} THEN 0 ELSE CHOOSE i \in matches : \A j \in matches : i <= j

\* DB.find_user_by(key=val): index of the single matching row, 0 when
\* query.one() raises (no row, or several), which becomes NoResultFound.
\* filter_by(key=None) is "key IS NULL" and matches the rows holding null.
find_user_by(us, key, val) ==
    LET matches == {i \in 1..Len(us) : us[i][key] = val}
    IN IF Cardinality(matches) = 1 THEN CHOOSE i \in matches : TRUE ELSE 0

\* DB.add_user(email, hashed_password): add and commit; the commit flushes
\* every pending change of the session.
add_user(us, d, email, hashed_password) ==
    IF Falsy(email) \/ hashed_password = NoHash
    THEN [ret |-> None, users |-> us, db |-> d]
    ELSE LET new == Append(us, User(NewId(us), email, hashed_password))
         IN [ret |-> "User", users |-> new, db |-> new]

\* DB.find_user_by(**kwargs) with no or one criterion: the guard on the
\* keys, then the query
find_user_by_kwargs(us, kwargs) ==
    IF kwargs = <<>> \/ \E k \in 1..Len(kwargs) : kwargs[k][1] \notin VALID_FIELDS
    THEN [ret |-> "InvalidRequestError", row |-> 0]
    ELSE LET i == find_user_by(us, kwargs[1][1], kwargs[1][2])
         IN [ret |-> IF i = 0 THEN "NoResultFound" ELSE "User", row |-> i]

\* the loop of DB.update_user from the k-th keyword on
RECURSIVE SetAttrs(_, _, _, _, _)
SetAttrs(us, d, i, kwargs, k) ==
    IF k > Len(kwargs)
    THEN [ret |-> None, users |-> us, db |-> us]
    ELSE IF kwargs[k][1] \notin VALID_FIELDS
         THEN [ret |-> "ValueError", users |-> us, db |-> d]
         ELSE SetAttrs([us EXCEPT ![i][kwargs[k][1]] = kwargs[k][2]],
                       d, i, kwargs, k + 1)

\* mutant: the update is applied without the filter on the id, so every
\* row receives the new values of the keywords
update_user_all(us, d, user_id, kwargs) ==
    LET i == find_user_by(us, "id", user_id)
    IN IF i = 0
       THEN [ret |-> "NoResultFound", users |-> us, db |-> d]
       ELSE LET r == SetAttrs(us, d, i, kwargs, 1)
                all == [j \in 1..Len(us) |->
                           [r.users[i] EXCEPT !.id = us[j].id,
                                              !.email = us[j].email]]
            IN [ret |-> r.ret, users |-> all,
                db |-> IF r.ret = None THEN all ELSE d]

\* DB.update_user(user_id, **kwargs); kwargs is the ordered keyword list
update_user(us, d, user_id, kwargs) ==
    LET i == find_user_by(us, "id", user_id)
    IN IF i = 0
       THEN [ret |-> "NoResultFound", users |-> us, db |-> d]
       ELSE SetAttrs(us, d, i, kwargs, 1)

\* ---------------------------------------------------------------- Auth
\* mutant: registration without the lookup of the email
register_user_nolookup(us, d, email, password, salt) ==
    IF HashRaises(password)
    THEN [ret |-> "AttributeError", users |-> us, db |-> d]
    ELSE add_user(us, d, email, _hash_password(password, salt))

\* Auth.register_user(email, password)
register_user(us, d, email, password, salt) ==
    IF find_user_by(us, "email", email) # 0
    THEN [ret |-> "ValueError", users |-> us, db |-> d]
    ELSE IF HashRaises(password)
         THEN [ret |-> "AttributeError", users |-> us, db |-> d]
         ELSE add_user(us, d, email, _hash_password(password, salt))

\* Auth.valid_login(email, password)
valid_login(us, email, password) ==
    LET i == find_user_by(us, "email", email)
    IN IF i = 0 THEN "False"
       ELSE IF password = None THEN "AttributeError"
       ELSE IF checkpw(password, us[i].hashed_password) THEN "True"
       ELSE "False"

\* mutant: a user who has a session keeps it; the new id is only returned
create_session_keep(us, d, email, n) ==
    LET i == find_user_by(us, "email", email)
    IN IF i = 0
       THEN [ret |-> None, users |-> us, db |-> d]
       ELSE IF us[i].session_id # None
            THEN [ret |-> _generate_uuid(n), users |-> us, db |-> d]
            ELSE [update_user(us, d, us[i].id,
                              <<<<"session_id", _generate_uuid(n)>>>>)
                     EXCEPT !.ret = _generate_uuid(n)]

\* Auth.create_session(email); n is the position in the uuid4 stream
create_session(us, d, email, n) ==
    LET i == find_user_by(us, "email", email)
    IN IF i = 0
       THEN [ret |-> None, users |-> us, db |-> d]
       ELSE LET sess_id == _generate_uuid(n)
                r == update_user(us, d, us[i].id, <<<<"session_id", sess_id>>>>)
            IN IF r.ret = "NoResultFound" THEN [r EXCEPT !.ret = None]
               ELSE IF r.ret = "ValueError" THEN r
               ELSE [r EXCEPT !.ret = sess_id]

\* Auth.get_user_from_session_id(session_id): the email, or None
get_user_from_session_id(us, session_id) ==
    IF session_id = None THEN None
    ELSE LET i == find_user_by(us, "session_id", session_id)
         IN IF i = 0 THEN None ELSE us[i].email

\* mutant: the lookup is made but the session id is not cleared
destroy_session_noclear(us, d, user_id) ==
    [ret |-> None, users |-> us, db |-> d]

\* mutant: no handler for NoResultFound
destroy_session_raise(us, d, user_id) ==
    LET i == find_user_by(us, "id", user_id)
    IN IF i = 0
       THEN [ret |-> "NoResultFound", users |-> us, db |-> d]
       ELSE update_user(us, d, us[i].id, <<<<"session_id", None>>>>)

\* Auth.destroy_session(user_id)
destroy_session(us, d, user_id) ==
    LET i == find_user_by(us, "id", user_id)
    IN IF i = 0
       THEN [ret |-> None, users |-> us, db |-> d]
       ELSE LET r == update_user(us, d, us[i].id, <<<<"session_id", None>>>>)
            IN IF r.ret = "NoResultFound" THEN [r EXCEPT !.ret = None] ELSE r

\* Auth.get_reset_password_token(email): the body of the method is the code
\* of the /reset_password handler; the names it uses (request, abort,
\* jsonify, AUTH) do not exist in auth.py, so the call ends in an error
\* that is not ValueError before any token is generated or stored.
get_reset_password_token(us, d, email) ==
    [ret |-> "NameError", users |-> us, db |-> d]

\* Auth.update_password(reset_token, password)
update_password(us, d, reset_token, password, salt) ==
    LET i == find_user_by(us, "reset_token", reset_token)
    IN IF i = 0
       THEN [ret |-> "ValueError", users |-> us, db |-> d]
       ELSE IF HashRaises(password)
            THEN [ret |-> "AttributeError", users |-> us, db |-> d]
            ELSE LET r == update_user(us, d, us[i].id,
                            << <<"hashed_password", _hash_password(password, salt)>>,
                               <<"reset_token", None>> >>)
                 IN IF r.ret = "NoResultFound"
                    THEN [r EXCEPT !.ret = "ValueError"]
                    ELSE r

\* ---------------------------------------------------------------- app
\* PUT /reset_password: update_password() of app.py
put_reset_password(us, d, reset_token, new_psw, salt) ==
    LET r == update_password(us, d, reset_token, new_psw, salt)
    IN IF r.ret = None THEN [r EXCEPT !.ret = "200"]
       ELSE [r EXCEPT !.ret = "403"]

\* An exception that no handler catches leaves the view; Flask answers 500.

\* POST /users: user() of app.py; every exception of register_user is
\* answered 400, every return (a User or None) 200
post_users(us, d, email, password, salt) ==
    LET r == register_user(us, d, email, password, salt)
    IN IF r.ret \in {"ValueError", "AttributeError"}
       THEN [r EXCEPT !.ret = "400"]
       ELSE [r EXCEPT !.ret = "200"]

\* POST /sessions: login() of app.py; cookie is the session_id cookie set
post_sessions(us, d, email, password, n) ==
    LET v == valid_login(us, email, password)
    IN IF v = "AttributeError"
       THEN [ret |-> "500", users |-> us, db |-> d, cookie |-> None]
       ELSE IF v = "True"
            THEN LET r == create_session(us, d, email, n)
                 IN [ret |-> "200", users |-> r.users, db |-> r.db,
                     cookie |-> r.ret]
            ELSE [ret |-> "401", users |-> us, db |-> d, cookie |-> None]

\* DELETE /sessions: logout() of app.py; get_user_from_session_id returns
\* the email, a str, and user.id raises AttributeError on it
delete_sessions(us, d, session_id) ==
    IF Falsy(session_id)
    THEN [ret |-> "403", users |-> us, db |-> d]
    ELSE LET user == get_user_from_session_id(us, session_id)
         IN IF ~Falsy(user)
            THEN [ret |-> "500", users |-> us, db |-> d]
            ELSE [ret |-> "403", users |-> us, db |-> d]

\* GET /profile: profile() of app.py; user.email raises AttributeError on
\* the str that get_user_from_session_id returns
get_profile(us, d, session_id) ==
    LET user == get_user_from_session_id(us, session_id)
    IN IF ~Falsy(user)
       THEN [ret |-> "500", users |-> us, db |-> d, body |-> None]
       ELSE [ret |-> "403", users |-> us, db |-> d, body |-> None]

\* POST /reset_password: get_reset_password_token() of app.py; it calls
\* create_session first, then Auth.get_reset_password_token, whose error
\* is not caught
post_reset_password(us, d, email, n) ==
    LET user == create_session(us, d, email, n)
    IN IF Falsy(user.ret)
       THEN [ret |-> "403", users |-> user.users, db |-> user.db,
             token |-> None]
       ELSE LET r == get_reset_password_token(user.users, user.db, email)
            IN IF r.ret = "NameError"
               THEN [ret |-> "500", users |-> r.users, db |-> r.db,
                     token |-> None]
               ELSE [ret |-> "200", users |-> r.users, db |-> r.db,
                     token |-> r.ret]

\* ---------------------------------------------------------------- state
\* the last call made and what it returned or raised
Call(op, email, password, token, uid, ret) ==
    [op |-> op, email |-> email, password |-> password, token |-> token,
     uid |-> uid, kwargs |-> <<>>, ret |-> ret]

Init ==
    /\ users = <<>>
    /\ db = <<>>
    /\ nextUuid = 1
    /\ last = Call("init", None, None, None, 0, None)
    /\ user_id_by_session_id = <<>>
    /\ calls = <<>>

Apply(r, c) ==
    /\ users' = r.users
    /\ db' = r.db
    /\ last' = [c EXCEPT !.ret = r.ret]
    /\ UNCHANGED <<user_id_by_session_id, calls>>

RegisterUser ==
    \E email \in EmailArgs, password \in PasswordArgs, salt \in Salts :
        LET r == register_user(users, db, email, password, salt)
        IN /\ Len(r.users) <= MaxUsers
           /\ Apply(r, Call("register_user", email, password, None, 0, None))
           /\ UNCHANGED nextUuid

ValidLogin ==
    \E email \in EmailArgs, password \in PasswordArgs :
        /\ last' = Call("valid_login", email, password, None, 0,
                        valid_login(users, email, password))
        /\ UNCHANGED <<users, db, nextUuid, user_id_by_session_id, calls>>

CreateSession ==
    \E email \in EmailArgs :
        LET r == create_session(users, db, email, nextUuid)
        IN /\ nextUuid <= MaxUuid
           /\ Apply(r, Call("create_session", email, None, None, 0, None))
           /\ nextUuid' = IF r.ret = None THEN nextUuid ELSE nextUuid + 1

GetUserFromSessionId ==
    \E session_id \in TokenArgs :
        /\ last' = Call("get_user_from_session_id", None, None, session_id, 0,
                        get_user_from_session_id(users, session_id))
        /\ UNCHANGED <<users, db, nextUuid, user_id_by_session_id, calls>>

DestroySession ==
    \E user_id \in UserIdArgs :
        /\ Apply(destroy_session(users, db, user_id),
                 Call("destroy_session", None, None, None, user_id, None))
        /\ UNCHANGED nextUuid

GetResetPasswordToken ==
    \E email \in EmailArgs :
        /\ Apply(get_reset_password_token(users, db, email),
                 Call("get_reset_password_token", email, None, None, 0, None))
        /\ UNCHANGED nextUuid

UpdatePassword ==
    \E reset_token \in TokenArgs, password \in PasswordArgs, salt \in Salts :
        /\ Apply(update_password(users, db, reset_token, password, salt),
                 Call("update_password", None, password, reset_token, 0, None))
        /\ UNCHANGED nextUuid

PutResetPassword ==
    \E reset_token \in TokenArgs, new_psw \in PasswordArgs, salt \in Salts :
        /\ Apply(put_reset_password(users, db, reset_token, new_psw, salt),
                 Call("PUT /reset_password", None, new_psw, reset_token, 0, None))
        /\ UNCHANGED nextUuid

\* the handlers of app.py; in last, token is the session_id cookie of the
\* request (DELETE /sessions, GET /profile), the cookie set by the response
\* (POST /sessions) or the reset_token of the response (POST /reset_password)
PostUsers ==
    \E email \in EmailArgs, password \in PasswordArgs, salt \in Salts :
        LET r == post_users(users, db, email, password, salt)
        IN /\ Len(r.users) <= MaxUsers
           /\ Apply(r, Call("POST /users", email, password, None, 0, None))
           /\ UNCHANGED nextUuid

PostSessions ==
    \E email \in EmailArgs, password \in PasswordArgs :
        LET r == post_sessions(users, db, email, password, nextUuid)
        IN /\ nextUuid <= MaxUuid
           /\ Apply(r, Call("POST /sessions", email, password, r.cookie, 0, None))
           /\ nextUuid' = IF r.ret = "200" THEN nextUuid + 1 ELSE nextUuid

DeleteSessions ==
    \E session_id \in TokenArgs :
        /\ Apply(delete_sessions(users, db, session_id),
                 Call("DELETE /sessions", None, None, session_id, 0, None))
        /\ UNCHANGED nextUuid

GetProfile ==
    \E session_id \in TokenArgs :
        LET r == get_profile(users, db, session_id)
        IN /\ Apply(r, Call("GET /profile", r.body, None, session_id, 0, None))
           /\ UNCHANGED nextUuid

PostResetPassword ==
    \E email \in EmailArgs :
        LET r == post_reset_password(users, db, email, nextUuid)
        IN /\ nextUuid <= MaxUuid
           /\ Apply(r, Call("POST /reset_password", email, None, r.token, 0, None))
           /\ nextUuid' = IF r.ret = "403" THEN nextUuid ELSE nextUuid + 1

Next ==
    \/ PostUsers
    \/ PostSessions
    \/ DeleteSessions
    \/ GetProfile
    \/ PostResetPassword
    \/ RegisterUser
    \/ ValidLogin
    \/ CreateSession
    \/ GetUserFromSessionId
    \/ DestroySession
    \/ GetResetPasswordToken
    \/ UpdatePassword
    \/ PutResetPassword

Spec == Init /\ [][Next]_vars

\* ------------------------------------------------- the store used directly
\* keyword lists given to DB.update_user: one or two distinct keys, in order
KwItems ==
    { <<"session_id", StrangerToken>>, <<"reset_token", StrangerToken>>,
      <<"is_admin", "1">> }
\* a new primary key given as a keyword
IdItems == {<<"id", n>> : n \in 1..(MaxUsers + 1)}
KwargsArgs ==
    {<<a>> : a \in KwItems} \cup
    {<<a, b>> : <<a, b>> \in {x \in KwItems \X KwItems : x[1][1] # x[2][1]}}
IdKwargsArgs == {<<a>> : a \in IdItems}

\* the primary key stays unique: an id keyword names no id of another row
\* (the flush of a duplicate key fails in the database and is not modelled)
KeepsIdsUnique(us, user_id, kwargs) ==
    \A k \in 1..Len(kwargs) :
        kwargs[k][1] = "id" =>
            \A j \in 1..Len(us) :
                us[j].id = kwargs[k][2] => us[j].id = user_id

\* criteria given to DB.find_user_by
CriteriaArgs ==
    {<<>>} \cup
    {<< <<key, val>> >> :
        key \in {"email", "session_id", "reset_token", "is_admin"},
        val \in {"a@x.com", StrangerToken, None}}

\* hashed passwords given to DB.add_user
HashArgs == {hashpw(PasswordSeq[1], SaltSeq[1]), NoHash}

\* emails given to DB.add_user, which does not look the email up: the same
\* email can be added twice
DbEmailArgs == {"a@x.com", "", None}

DbAddUser ==
    \E email \in DbEmailArgs, hashed_password \in HashArgs :
        LET r == add_user(users, db, email, hashed_password)
        IN /\ Len(r.users) <= MaxUsers
           /\ Apply(r, Call("add_user", email, None, None, 0, None))
           /\ UNCHANGED nextUuid

\* a lookup; uid is the id of the row found
DbFindUserBy ==
    \E kwargs \in CriteriaArgs :
        LET r == find_user_by_kwargs(users, kwargs)
        IN /\ last' = [Call("find_user_by", None, None, None,
                            IF r.row = 0 THEN 0 ELSE users[r.row].id, r.ret)
                          EXCEPT !.kwargs = kwargs]
           /\ UNCHANGED <<users, db, nextUuid, user_id_by_session_id, calls>>

DbUpdateUser ==
    \E user_id \in UserIdArgs, kwargs \in KwargsArgs :
        /\ Apply(update_user(users, db, user_id, kwargs),
                 [Call("update_user", None, None, None, user_id, None)
                     EXCEPT !.kwargs = kwargs])
        /\ UNCHANGED nextUuid

NextDB ==
    \/ DbAddUser
    \/ DbFindUserBy
    \/ DbUpdateUser

SpecDB == Init /\ [][NextDB]_vars

\* DB.update_user called with the id keyword
DbUpdateUserId ==
    \E user_id \in UserIdArgs, kwargs \in IdKwargsArgs :
        /\ KeepsIdsUnique(users, user_id, kwargs)
        /\ Apply(update_user(users, db, user_id, kwargs),
                 [Call("update_user", None, None, None, user_id, None)
                     EXCEPT !.kwargs = kwargs])
        /\ UNCHANGED nextUuid

NextDBId ==
    \/ DbAddUser
    \/ DbFindUserBy
    \/ DbUpdateUser
    \/ DbUpdateUserId

SpecDBId == Init /\ [][NextDBId]_vars

\* ================================================================ claims
Rows(us) == 1..Len(us)
RowsWithEmail(us, e) == {i \in Rows(us) : us[i].email = e}
RowsWithId(us, id) == {i \in Rows(us) : us[i].id = id}
\* every str value a caller may present as a session or reset token
AllTokens == TokenArgs \ {None}

\* C1: register_user for an email that already has a record raises
\* ValueError and adds nothing; in particular a registration that follows a
\* successful registration of the same email fails, and the store holds
\* exactly one record with that email.
C1_DuplicateRegistrationRejected ==
    [][ last'.op = "register_user" =>
          /\ RowsWithEmail(users, last'.email) # {} =>
                /\ last'.ret = "ValueError"
                /\ users' = users /\ db' = db
                /\ Cardinality(RowsWithEmail(users', last'.email)) = 1
          /\ (last.op = "register_user" /\ last.ret = "User"
                /\ last'.email = last.email) =>
                /\ last'.ret = "ValueError"
                /\ Cardinality(RowsWithEmail(users', last'.email)) = 1
      ]_vars

C1_Witness ==
    /\ last.op = "register_user"
    /\ last.ret = "ValueError"
    /\ Cardinality(RowsWithEmail(users, last.email)) = 1

\* C2: valid_login(email, password) returns True exactly when a record with
\* that email exists and the password verifies against its stored hash, and
\* returns False (without raising) for every other pair.
Verifies(password, hashed) == password # None /\ checkpw(password, hashed)

C2_ValidLoginIffVerifies ==
    last.op = "valid_login" =>
        last.ret = IF \E i \in RowsWithEmail(users, last.email) :
                        Verifies(last.password, users[i].hashed_password)
                   THEN "True" ELSE "False"

\* C3: get_user_from_session_id(t), called right after create_session(e)
\* returned t, returns the identity (the email) of the user of e.
C3_SessionResolvesToItsUser ==
    [][ (/\ last.op = "create_session" /\ last.ret # None
         /\ last'.op = "get_user_from_session_id"
         /\ last'.token = last.ret)
        => /\ last'.ret = last.email
           /\ \E i \in RowsWithEmail(users', last.email) :
                 users'[i].session_id = last.ret
      ]_vars

C3_Witness ==
    /\ last.op = "get_user_from_session_id"
    /\ last.ret \in Emails
    /\ Len(users) = 2
    /\ \E i \in RowsWithEmail(users, last.ret) : users[i].session_id = last.token

\* C4: destroy_session(user.id) of a user whose session token is t leaves
\* the user's session_id null and t resolving to None, and a token that
\* resolves to None keeps doing so as long as no session is created.
\* the calls that run Auth.create_session
SessionCreators == {"create_session", "POST /sessions", "POST /reset_password"}

C4_DestroyedSessionStaysDead ==
    [][ /\ last'.op = "destroy_session" =>
            \A i \in RowsWithId(users, last'.uid) :
                users[i].session_id # None =>
                    /\ users'[i].session_id = None
                    /\ get_user_from_session_id(users', users[i].session_id) = None
        /\ (last'.op \notin SessionCreators /\ users' # users) =>
            \A t \in AllTokens :
                get_user_from_session_id(users, t) = None =>
                    get_user_from_session_id(users', t) = None
      ]_vars

C4_Witness ==
    /\ last.op = "destroy_session"
    /\ \E i \in RowsWithId(users, last.uid) : users[i].session_id = None
    /\ nextUuid > 1
    /\ \A n \in 1..(nextUuid - 1) :
          get_user_from_session_id(users, UuidSeq[n]) = None

\* C5: destroy_session returns normally for every id; when the id matches no
\* record or the record has no session the store is unchanged, and a second
\* call right after a first changes nothing.
C5_DestroySessionIdempotent ==
    [][ last'.op = "destroy_session" =>
          /\ last'.ret = None
          /\ (\A i \in RowsWithId(users, last'.uid) : users[i].session_id = None)
                => (users' = users /\ db' = db)
          /\ destroy_session(users', db', last'.uid)
                = [ret |-> None, users |-> users', db |-> db']
      ]_vars

C5_Witness ==
    /\ last.op = "destroy_session"
    /\ last.ret = None
    /\ RowsWithId(users, last.uid) = {}
    /\ users # <<>>

\* C6: for a registered user with email e and password oldPw, the token
\* returned by get_reset_password_token(e), given to update_password with a
\* different newPw, makes valid_login(e, newPw) True and valid_login(e, oldPw)
\* False.
C6_ResetThenLogin ==
    (last.op = "get_reset_password_token"
        /\ RowsWithEmail(users, last.email) # {}) =>
        /\ last.ret \in Uuids
        /\ \A oldPw \in PasswordArgs \ {None}, newPw \in PasswordArgs \ {None},
              salt \in Salts :
              (valid_login(users, last.email, oldPw) = "True" /\ newPw # oldPw) =>
                LET r == update_password(users, db, last.ret, newPw, salt)
                IN /\ r.ret = None
                   /\ valid_login(r.users, last.email, newPw) = "True"
                   /\ valid_login(r.users, last.email, oldPw) = "False"

\* C7: update_password with a reset_token that is not the stored non-null
\* reset_token of some user raises ValueError and changes no hashed_password
\* and no reset_token; PUT /reset_password then answers 403.
StoredResetToken(us, t) == t # None /\ \E i \in Rows(us) : us[i].reset_token = t

C7_InvalidResetTokenRejected ==
    [][ (last'.op \in {"update_password", "PUT /reset_password"}
            /\ ~StoredResetToken(users, last'.token)) =>
          /\ last'.ret = IF last'.op = "update_password"
                         THEN "ValueError" ELSE "403"
          /\ Len(users') = Len(users)
          /\ \A i \in Rows(users) :
                /\ users'[i].hashed_password = users[i].hashed_password
                /\ users'[i].reset_token = users[i].reset_token
      ]_vars

\* C8: get_reset_password_token(email) stores a fresh token on the record of
\* that email and returns it; for an email without a record it raises
\* ValueError and leaves the store unchanged.
C8_ResetTokenIssued ==
    [][ last'.op = "get_reset_password_token" =>
          IF RowsWithEmail(users, last'.email) # {}
          THEN /\ last'.ret \in Uuids
               /\ \A i \in Rows(users) :
                     last'.ret \notin {users[i].reset_token, users[i].session_id}
               /\ \A i \in RowsWithEmail(users, last'.email) :
                     users'[i].reset_token = last'.ret
          ELSE /\ last'.ret = "ValueError"
               /\ users' = users /\ db' = db
      ]_vars

\* C9: create_session(e) overwrites the previous token of the user: the
\* token it returns is the only one that resolves to the user, and the
\* token the user had before resolves to None.
C9_OneLiveSessionPerUser ==
    [][ (last'.op = "create_session" /\ last'.ret # None) =>
          /\ get_user_from_session_id(users', last'.ret) = last'.email
          /\ \A t \in AllTokens \ {last'.ret} :
                get_user_from_session_id(users', t) # last'.email
          /\ \A i \in RowsWithEmail(users, last'.email) :
                users[i].session_id # None =>
                    /\ users[i].session_id # last'.ret
                    /\ get_user_from_session_id(users', users[i].session_id) = None
      ]_vars

C9_Witness ==
    /\ last.op = "create_session"
    /\ last.ret = UuidSeq[2]
    /\ \E i \in RowsWithEmail(users, last.email) : users[i].session_id = last.ret
    /\ get_user_from_session_id(users, UuidSeq[1]) = None

\* C10: an update_user call that raises ValueError changes no field of any
\* record: nothing it set before the invalid key is seen by a later lookup
\* or written by a later commit.
C10_UpdateAllOrNothing ==
    [][ (last'.op = "update_user" /\ last'.ret = "ValueError") =>
            (users' = users /\ db' = db) ]_vars

\* C11: update_user on an existing record rejects with ValueError every
\* key other than email, hashed_password, session_id and reset_token, id
\* included, so the id of a record never changes.
UpdatableFields == {"email", "hashed_password", "session_id", "reset_token"}

C11_OnlyWhitelistedKeysAndIdImmutable ==
    [][ last'.op = "update_user" =>
          /\ (/\ RowsWithId(users, last'.uid) # {}
              /\ \E k \in 1..Len(last'.kwargs) :
                    last'.kwargs[k][1] \notin UpdatableFields)
                => last'.ret = "ValueError"
          /\ Len(users') = Len(users)
          /\ \A i \in Rows(users) : users'[i].id = users[i].id
      ]_vars

\* C12: find_user_by(field=value) returns a record exactly when one record
\* matches, and raises NoResultFound when none or several match.
Matching(us, kwargs) == {i \in Rows(us) : us[i][kwargs[1][1]] = kwargs[1][2]}

C12_FindReturnsTheSingleMatch ==
    (last.op = "find_user_by" /\ Len(last.kwargs) = 1
        /\ last.kwargs[1][1] \in VALID_FIELDS) =>
        IF Cardinality(Matching(users, last.kwargs)) = 1
        THEN /\ last.ret = "User"
             /\ \E i \in Matching(users, last.kwargs) : users[i].id = last.uid
        ELSE last.ret = "NoResultFound"

C12_Witness ==
    /\ last.op = "find_user_by" /\ Len(last.kwargs) = 1
    /\ last.kwargs[1][1] = "email"
    /\ Cardinality(Matching(users, last.kwargs)) = 2
    /\ last.ret = "NoResultFound"

\* C13: after any sequence of Auth operations no two records have the same
\* email.
C13_EmailsUnique ==
    \A i \in Rows(users), j \in Rows(users) :
        i # j => users[i].email # users[j].email

C13_Witness ==
    /\ Len(users) = 2
    /\ last.op = "register_user" /\ last.ret = "ValueError"
    /\ users[1].email # users[2].email

\* C14: no two records hold the same non-null session_id, and no two the
\* same non-null reset_token: a non-null token resolves to one user.
C14_TokensUnique ==
    \A i \in Rows(users), j \in Rows(users) :
        i # j =>
            /\ users[i].session_id # None =>
                  /\ users[i].session_id # users[j].session_id
                  /\ get_user_from_session_id(users, users[i].session_id)
                        = users[i].email
            /\ users[i].reset_token # None =>
                  users[i].reset_token # users[j].reset_token

C14_Witness ==
    /\ Len(users) = 2
    /\ users[1].session_id # None /\ users[2].session_id # None
    /\ last.op = "create_session"

\* C15: DELETE /sessions with a cookie equal to the session token of a user
\* sets that token to null and redirects to the root; with a missing cookie
\* or one that matches no user it answers 403 and leaves the store unchanged.
RowsWithSession(us, t) ==
    IF t = None THEN {} ELSE {i \in Rows(us) : us[i].session_id = t}

C15_LogoutClearsSession ==
    [][ last'.op = "DELETE /sessions" =>
          IF RowsWithSession(users, last'.token) # {}
          THEN /\ last'.ret = "302"
               /\ \A i \in RowsWithSession(users, last'.token) :
                     users'[i].session_id = None
          ELSE /\ last'.ret = "403"
               /\ users' = users /\ db' = db
      ]_vars

\* C16: GET /profile with a cookie equal to the session token of a user
\* answers 200 with that user's email, and 403 with a missing cookie or one
\* that matches no user; the store is unchanged in both cases.
C16_ProfileShowsEmail ==
    [][ last'.op = "GET /profile" =>
          /\ users' = users /\ db' = db
          /\ IF RowsWithSession(users, last'.token) # {}
             THEN /\ last'.ret = "200"
                  /\ \A i \in RowsWithSession(users, last'.token) :
                        last'.email = users[i].email
             ELSE last'.ret = "403"
      ]_vars

\* C17: POST /sessions answers 200 with a non-null session_id cookie, stored
\* as the session token of the user of the email, exactly when valid_login
\* holds; otherwise it answers 401 and no session token changes.
C17_LoginSetsSessionIffValid ==
    [][ last'.op = "POST /sessions" =>
          IF valid_login(users, last'.email, last'.password) = "True"
          THEN /\ last'.ret = "200"
               /\ last'.token # None
               /\ \E i \in RowsWithEmail(users', last'.email) :
                     users'[i].session_id = last'.token
          ELSE /\ last'.ret = "401"
               /\ Len(users') = Len(users)
               /\ \A i \in Rows(users) :
                     users'[i].session_id = users[i].session_id
      ]_vars

\* C18: POST /reset_password for a registered email answers 200 with the
\* reset_token now stored on that user's record; for an email without a
\* record it answers 403 and leaves the store unchanged.
C18_ResetRequestReturnsStoredToken ==
    [][ last'.op = "POST /reset_password" =>
          IF RowsWithEmail(users, last'.email) # {}
          THEN /\ last'.ret = "200"
               /\ last'.token # None
               /\ \A i \in RowsWithEmail(users', last'.email) :
                     users'[i].reset_token = last'.token
          ELSE /\ last'.ret = "403"
               /\ users' = users /\ db' = db
      ]_vars

\* C19: POST /users answers 200 exactly when the call created a record with
\* the submitted email, and 400 only when a record with that email already
\* existed, for every email and password, missing or empty ones included.
C19_RegistrationResponseMatchesStore ==
    [][ last'.op = "POST /users" =>
          /\ last'.ret \in {"200", "400"}
          /\ last'.ret = "200" <=>
                /\ Len(users') = Len(users) + 1
                /\ users'[Len(users')].email = last'.email
          /\ last'.ret = "400" => RowsWithEmail(users, last'.email) # {}
      ]_vars

\* C20: a failing login discloses nothing about the email: in the store and
\* in the store that differs only by the absence of the record of the
\* email, valid_login returns False and POST /sessions answers 401, and
\* neither changes the state.
Without(us, e) == SelectSeq(us, LAMBDA u : u.email # e)

C20_LoginFailureHidesEmail ==
    (last.op \in {"valid_login", "POST /sessions"}
        /\ last.ret \notin {"True", "200"}) =>
        LET other == Without(users, last.email)
            here == post_sessions(users, db, last.email, last.password, 1)
            there == post_sessions(other, other, last.email, last.password, 1)
        IN /\ valid_login(users, last.email, last.password) = "False"
           /\ valid_login(other, last.email, last.password) = "False"
           /\ here.ret = "401" /\ there.ret = "401"
           /\ here.users = users /\ there.users = other
           /\ last.ret = IF last.op = "valid_login" THEN "False" ELSE "401"

\* ------------------------------------------- SessionAuth (session_auth.py)
\* The class keeps one dictionary, user_id_by_session_id, shared by every
\* instance.  It is modelled as a function whose domain is the set of keys.
MaxSessions == 3

SessionUserIds == {"user1", "user2", "user3"}
SessionUserIdArgs == SessionUserIds \cup {"", None}
SessionIdArgs ==
    {UuidSeq[i] : i \in 1..MaxSessions} \cup SessionUserIds \cup {"", None}

uuid4(n) == UuidSeq[n]

DictSet(d, key, value) ==
    [k \in (DOMAIN d) \cup {key} |-> IF k = key THEN value ELSE d[k]]

DictGet(d, key, default) == IF key \in DOMAIN d THEN d[key] ELSE default

SessionAuth_create_session(d, user_id, n) ==
    IF Falsy(user_id)
    THEN [ret |-> None, dict |-> d]
    ELSE LET session_id == uuid4(n)
         IN [ret |-> session_id, dict |-> DictSet(d, user_id, session_id)]

user_id_for_session_id(d, session_id) ==
    IF Falsy(session_id) THEN None ELSE DictGet(d, session_id, None)

SessionCall(op, user_id, session_id, ret) ==
    [op |-> op, user_id |-> user_id, session_id |-> session_id, ret |-> ret]

InitSession ==
    /\ users = <<>>
    /\ db = <<>>
    /\ calls = <<>>
    /\ nextUuid = 1
    /\ user_id_by_session_id = <<>>
    /\ last = SessionCall("init", None, None, None)

SessionCreate ==
    \E user_id \in SessionUserIdArgs :
        LET r == SessionAuth_create_session(user_id_by_session_id, user_id,
                                            nextUuid)
        IN /\ nextUuid <= MaxSessions
           /\ user_id_by_session_id' = r.dict
           /\ nextUuid' = IF r.ret = None THEN nextUuid ELSE nextUuid + 1
           /\ last' = SessionCall("SessionAuth.create_session", user_id,
                                  None, r.ret)
           /\ UNCHANGED <<users, db, calls>>

SessionLookup ==
    \E session_id \in SessionIdArgs :
        /\ last' = SessionCall("user_id_for_session_id", None, session_id,
                       user_id_for_session_id(user_id_by_session_id,
                                              session_id))
        /\ UNCHANGED <<users, db, nextUuid, user_id_by_session_id, calls>>

NextSession ==
    \/ SessionCreate
    \/ SessionLookup

SpecSession == InitSession /\ [][NextSession]_vars

\* C21: once SessionAuth.create_session(user_id) has returned a session id
\* for a non-empty string user_id, user_id_for_session_id of that session
\* id is user_id.
C21_SessionMapsToUser ==
    (last.op = "SessionAuth.create_session" /\ last.ret # None)
        => user_id_for_session_id(user_id_by_session_id, last.ret)
               = last.user_id

\* ------------------------------------- Auth.require_auth (0x02 auth.py)
\* A str is a sequence of symbols; "/" is the slash and every other symbol
\* stands for a path segment without slashes.  NonePath and NoneList stand
\* for the None object passed where a str or a list is expected.
MaxPathLen == 3
MaxExcluded == 2

PathSymbols == {"/", "status"}
NonePath == <<None>>
NoneList == <<NonePath>>

SeqsUpTo(S, n) == UNION {[1..k -> S] : k \in 0..n}

Paths == SeqsUpTo(PathSymbols, MaxPathLen)
PathArgs == Paths \cup {NonePath}
ExcludedArgs == SeqsUpTo(Paths, MaxExcluded) \cup {NoneList}

InList(x, list) == \E i \in 1..Len(list) : list[i] = x

require_auth(path, excluded_paths) ==
    IF path = NonePath \/ excluded_paths = NoneList
           \/ Len(excluded_paths) = 0
    THEN "True"
    ELSE IF Len(path) = 0
    THEN "IndexError"
    ELSE LET check == IF path[Len(path)] # "/" THEN Append(path, "/")
                      ELSE path
         IN IF InList(check, excluded_paths) \/ InList(path, excluded_paths)
            THEN "False"
            ELSE "True"

InitPaths ==
    /\ users = <<>>
    /\ db = <<>>
    /\ calls = <<>>
    /\ nextUuid = 1
    /\ user_id_by_session_id = <<>>
    /\ \E path \in PathArgs, excluded_paths \in ExcludedArgs :
           last = [op |-> "input", path |-> path,
                   excluded_paths |-> excluded_paths, ret |-> None]

RequireAuth ==
    /\ last.op = "input"
    /\ last' = [last EXCEPT !.op = "require_auth",
                            !.ret = require_auth(last.path,
                                                 last.excluded_paths)]
    /\ UNCHANGED <<users, db, nextUuid, user_id_by_session_id, calls>>

NextPaths == RequireAuth

SpecPaths == InitPaths /\ [][NextPaths]_vars

WithTrailingSlash(path) ==
    IF Len(path) > 0 /\ path[Len(path)] = "/" THEN path
    ELSE Append(path, "/")

\* C26: require_auth returns a boolean for every str path, the empty one
\* included: True when path is None or excluded_paths is None or empty,
\* and otherwise False exactly when path, or path with a trailing slash
\* appended when it has none, is an element of excluded_paths.
C26_RequireAuthIsExclusionTest ==
    last.op = "require_auth" =>
        /\ last.ret \in {"True", "False"}
        /\ IF last.path = NonePath \/ last.excluded_paths = NoneList
                  \/ Len(last.excluded_paths) = 0
           THEN last.ret = "True"
           ELSE (last.ret = "False") <=>
                    \/ InList(last.path, last.excluded_paths)
                    \/ InList(WithTrailingSlash(last.path),
                              last.excluded_paths)

\* ------------------------------------ filter_datum (filtered_logger.py)
\* A log message is a str, again a sequence of symbols: "=" and ";" are the
\* characters themselves and every other symbol stands for a run of word
\* characters, so the key username is the two symbols user, name.
MaxPairs == 2
MaxFields == 2

FieldNames == {<<"name">>, <<"email">>}
Keys == FieldNames \cup {<<"user", "name">>}
Values == {<<"bob">>, <<>>}
REDACTION == <<"***">>
SEPARATOR == <<";">>

FieldsArgs ==
    {fs \in SeqsUpTo(FieldNames, MaxFields) :
        \A i, j \in 1..Len(fs) : i # j => fs[i] # fs[j]}
PairsArgs == SeqsUpTo(Keys \X Values, MaxPairs) \ {<<>>}

StartsWithAt(message, i, pattern) ==
    /\ i + Len(pattern) - 1 <= Len(message)
    /\ \A k \in 1..Len(pattern) : message[i + k - 1] = pattern[k]

\* index of the first occurrence of pattern at or after i, 0 if none
FirstAt(message, i, pattern) ==
    LET hits == {j \in i..Len(message) : StartsWithAt(message, j, pattern)}
    IN IF hits = {} THEN 0
       ELSE CHOOSE j \in hits : \A h \in hits : j <= h

\* re.sub(rf"{f}=(.*?)\{separator}", f"{f}={redaction}{separator}", message)
\* from position i on: leftmost match, shortest value, no overlap
RECURSIVE re_sub(_, _, _, _, _)
re_sub(f, redaction, separator, message, i) ==
    IF i > Len(message) THEN <<>>
    ELSE LET head == f \o <<"=">>
             j == IF StartsWithAt(message, i, head)
                  THEN FirstAt(message, i + Len(head), separator)
                  ELSE 0
         IN IF j > 0
            THEN head \o redaction \o separator
                 \o re_sub(f, redaction, separator, message,
                           j + Len(separator))
            ELSE <<message[i]>>
                 \o re_sub(f, redaction, separator, message, i + 1)

RECURSIVE filter_datum(_, _, _, _)
filter_datum(fields, redaction, message, separator) ==
    IF fields = <<>> THEN message
    ELSE filter_datum(Tail(fields), redaction,
                      re_sub(Head(fields), redaction, separator, message, 1),
                      separator)

RECURSIVE Render(_, _)
Render(pairs, separator) ==
    IF pairs = <<>> THEN <<>>
    ELSE Head(pairs)[1] \o <<"=">> \o Head(pairs)[2] \o separator
         \o Render(Tail(pairs), separator)

InitFilter ==
    /\ users = <<>>
    /\ db = <<>>
    /\ calls = <<>>
    /\ nextUuid = 1
    /\ user_id_by_session_id = <<>>
    /\ \E fields \in FieldsArgs, pairs \in PairsArgs :
           last = [op |-> "input", fields |-> fields, pairs |-> pairs,
                   message |-> Render(pairs, SEPARATOR), ret |-> <<>>]

FilterDatum ==
    /\ last.op = "input"
    /\ last' = [last EXCEPT !.op = "filter_datum",
                            !.ret = filter_datum(last.fields, REDACTION,
                                                 last.message, SEPARATOR)]
    /\ UNCHANGED <<users, db, nextUuid, user_id_by_session_id, calls>>

NextFilter == FilterDatum

SpecFilter == InitFilter /\ [][NextFilter]_vars

Redacted(pairs, fields, redaction) ==
    [i \in 1..Len(pairs) |->
        IF InList(pairs[i][1], fields) THEN <<pairs[i][1], redaction>>
        ELSE pairs[i]]

\* C22: filter_datum returns the message in which every key=value pair
\* whose key is one of fields has its value replaced by the redaction
\* string and every pair whose key is not in fields is unchanged.
C22_FilterRedactsExactlyFields ==
    last.op = "filter_datum" =>
        last.ret = Render(Redacted(last.pairs, last.fields, REDACTION),
                          SEPARATOR)

\* -------------------------------------------- main (filtered_logger.py)
\* main() reads every row of the users table and writes one line per row.
\* A row is the tuple of its eight columns, in the order of the message:
\* name, email, phone, ssn, password, ip, last_login, user_agent.
MaxRows == 2

PII_FIELDS == <<"name", "email", "phone", "ssn", "password">>

RowArgs ==
    {<<name, email, "555-0100", "000-12-3456", "hunter2", ip, "2019-11-14",
       "curl">> :
        name \in {"Bob", "Al"}, email \in {"bob@x.com", "al@x.com"},
        ip \in {"10.0.0.1", "10.0.0.2"}}
TableArgs == SeqsUpTo(RowArgs, MaxRows)

Message(row) ==
    <<"name", "=", row[1], ";", " ", "email", "=", row[2], ";", " ",
      "phone", "=", row[3], ";", " ", "ssn", "=", row[4], ";", " ",
      "password", "=", row[5], ";", "ip", "=", row[6], ";", " ",
      "last_login", "=", row[7], ";", " ", "user_agent", "=", row[8], ";">>

\* print(message) writes the message itself to standard output
main(rows) == [i \in 1..Len(rows) |-> Message(rows[i])]

InitMain ==
    /\ users = <<>>
    /\ db = <<>>
    /\ calls = <<>>
    /\ nextUuid = 1
    /\ user_id_by_session_id = <<>>
    /\ \E rows \in TableArgs :
           last = [op |-> "input", rows |-> rows, out |-> <<>>]

Main ==
    /\ last.op = "input"
    /\ last' = [last EXCEPT !.op = "main", !.out = main(last.rows)]
    /\ UNCHANGED <<users, db, nextUuid, user_id_by_session_id, calls>>

NextMain == Main

SpecMain == InitMain /\ [][NextMain]_vars

Shows(line, value) == \E k \in 1..Len(line) : line[k] = value

\* C27: main() emits one line per row of the users table; the line shows
\* none of the row's name, email, phone, ssn and password values and does
\* show its ip, last_login and user_agent values.
C27_MainRedactsPII ==
    last.op = "main" =>
        /\ Len(last.out) = Len(last.rows)
        /\ \A i \in 1..Len(last.rows) :
               /\ \A c \in 1..Len(PII_FIELDS) :
                      ~Shows(last.out[i], last.rows[i][c])
               /\ \A c \in (Len(PII_FIELDS) + 1)..8 :
                      Shows(last.out[i], last.rows[i][c])

\* ------------------------------------------ frame of the Auth operations
SessionChangers ==
    {"create_session", "POST /sessions", "destroy_session",
     "DELETE /sessions"}

\* C23: a user's session_id changes only in a login (create session) or a
\* logout (destroy session); in particular POST /reset_password and
\* PUT /reset_password leave every user's session_id unchanged.
C23_SessionChangesOnlyOnLoginLogout ==
    [][\A i \in Rows(users) :
           (i \in Rows(users') /\ users'[i].session_id # users[i].session_id)
               => last'.op \in SessionChangers]_vars

Changed(us, vs) == {i \in Rows(us) : i \in Rows(vs) /\ vs[i] # us[i]}

\* the rows an Auth operation is aimed at, looked up in the state before it
Targets(us, c) ==
    CASE c.op = "create_session" -> RowsWithEmail(us, c.email)
      [] c.op = "get_reset_password_token" -> RowsWithEmail(us, c.email)
      [] c.op = "destroy_session" -> RowsWithId(us, c.uid)
      [] c.op = "update_password" ->
             {i \in Rows(us) : us[i].reset_token = c.token}
      [] OTHER -> {}

\* C24: create_session, destroy_session, get_reset_password_token and
\* update_password add and remove no record, change at most one record,
\* which is the one they target, and never a record's id or email;
\* valid_login and get_user_from_session_id change nothing.
C24_LifecycleTouchesOnlyTarget ==
    [][/\ last'.op \in {"create_session", "destroy_session",
                        "get_reset_password_token", "update_password"}
          => /\ Len(users') = Len(users)
             /\ Cardinality(Changed(users, users')) <= 1
             /\ Changed(users, users') \subseteq Targets(users, last')
             /\ \A i \in Rows(users) :
                    /\ users'[i].id = users[i].id
                    /\ users'[i].email = users[i].email
       /\ last'.op \in {"valid_login", "get_user_from_session_id"}
          => users' = users /\ db' = db]_vars

C24_Witness ==
    /\ last.op = "create_session"
    /\ last.ret \in Uuids
    /\ \E i, j \in Rows(users) :
           /\ users[i].email = last.email
           /\ users[i].session_id = last.ret
           /\ users[j].email # last.email
           /\ users[j].session_id \in Uuids \ {last.ret}

\* ------------------------- concurrent Auth.register_user (auth.py 85-89)
\* Several register_user calls run against the one DB object of the
\* service.  A call is two steps: the lookup of the email (find_user_by)
\* and, when the lookup raised NoResultFound, the insert (add_user); steps
\* of different calls interleave freely.  calls[p].after is the set of
\* calls whose insert was complete when call p made its lookup.
NumCalls == 2

RaceCall(email, password) ==
    [email |-> email, password |-> password, pc |-> "lookup", ret |-> None,
     after |-> {}]

\* mutant: the lookup never finds the email
register_user_lookup_blind(us, email) == FALSE

\* the try block of register_user: TRUE when find_user_by(email=email)
\* returns a user, so that ValueError is raised
register_user_lookup(us, email) == find_user_by(us, "email", email) # 0

Inserted == {q \in 1..Len(calls) : calls[q].pc = "done" /\ calls[q].ret = "User"}

InitRace ==
    /\ users = <<>>
    /\ db = <<>>
    /\ nextUuid = 1
    /\ user_id_by_session_id = <<>>
    /\ last = Call("init", None, None, None, 0, None)
    /\ calls \in [1..NumCalls ->
                     {RaceCall(email, PasswordSeq[k]) :
                         email \in Emails, k \in 1..Len(PasswordSeq)}]

RaceLookup ==
    \E p \in 1..Len(calls) :
        /\ calls[p].pc = "lookup"
        /\ calls' = [calls EXCEPT ![p] =
               IF register_user_lookup(users, calls[p].email)
               THEN [@ EXCEPT !.pc = "done", !.ret = "ValueError",
                              !.after = Inserted]
               ELSE [@ EXCEPT !.pc = "insert", !.after = Inserted]]
        /\ UNCHANGED <<users, db, nextUuid, last, user_id_by_session_id>>

RaceInsert ==
    \E p \in 1..Len(calls), salt \in Salts :
        LET r == add_user(users, db, calls[p].email,
                          _hash_password(calls[p].password, salt))
        IN /\ calls[p].pc = "insert"
           /\ users' = r.users
           /\ db' = r.db
           /\ calls' = [calls EXCEPT ![p] = [@ EXCEPT !.pc = "done",
                                                      !.ret = r.ret]]
           /\ UNCHANGED <<nextUuid, last, user_id_by_session_id>>

NextRace ==
    \/ RaceLookup
    \/ RaceInsert

SpecRace == InitRace /\ [][NextRace]_vars

AllDone == \A p \in 1..Len(calls) : calls[p].pc = "done"
Creators(e) == {p \in Inserted : calls[p].email = e}
InsertedBefore(p) == {q \in calls[p].after : calls[q].email = calls[p].email}

\* C25 as stated: when every call has finished, no email is stored twice,
\* and of two calls for the same email one created the record and the
\* other raised ValueError.
C25_RaceKeepsEmailUnique ==
    AllDone =>
        /\ \A e \in Emails : Cardinality(RowsWithEmail(users, e)) <= 1
        /\ \A p, q \in 1..Len(calls) :
               (p # q /\ calls[p].email = calls[q].email)
                   => {calls[p].ret, calls[q].ret} = {"User", "ValueError"}

\* C25 amended: a finished call raised ValueError exactly when, at its
\* lookup, one call for the same email had completed its insert; every
\* other call created a record, so an email is stored once for each call
\* that looked it up before any insert of it was complete.
C25_RaceOutcome ==
    /\ \A p \in 1..Len(calls) :
           calls[p].pc = "done" =>
               /\ calls[p].ret \in {"User", "ValueError"}
               /\ calls[p].ret = "ValueError"
                      <=> Cardinality(InsertedBefore(p)) = 1
    /\ \A e \in Emails :
           Cardinality(RowsWithEmail(users, e)) = Cardinality(Creators(e))

C25_Witness ==
    /\ AllDone
    /\ \E p, q \in 1..Len(calls) :
           /\ p # q
           /\ calls[p].email = calls[q].email
           /\ calls[p].ret = "User" /\ calls[q].ret = "User"
           /\ Cardinality(RowsWithEmail(users, calls[p].email)) = 2
====
